---- MODULE Spec2Model ----
(***************************************************************************)
(* A model of the sampling core of pyqmc:                                  *)
(*   - pyqmc/distance.py : RawDistance, MinimalImageDistance               *)
(*   - mc.py             : initial_guess, initial_guess_vectorize, vmc     *)
(*   - pyqmc/obdm.py     : OBDMAccumulator, sample_onebody                 *)
(* Each subsystem has its own specification (SpecDist, SpecGuess, SpecVmc, *)
(* SpecObdm); the variables of the other subsystems stay at their idle     *)
(* value.  Positions are integer 3-vectors and all arithmetic is exact.    *)
(***************************************************************************)
EXTENDS Integers, Sequences, FiniteSets, TLC

VARIABLES
  geom,     \* the distance object: [dist_i, latvec]; dist_i is the bound method
  dcall,    \* the last call made on the distance object: [op, a, b]
  dret,     \* what that call returned: [vs, ij]
  mol,      \* the system of an initial guess: [charges, nelec]
  gcall,    \* the initial-guess call made: [fn, nconfig]
  gret,     \* what it returned: [status, epos]
  vin,      \* the arguments of a vmc run: [nelec, nconf, nsteps, accumulators, wf]
  coords,   \* the walker ensemble of the run: coords[c][e + 1]
  pc,       \* where the run is: "call", "step", "particle", "accumulate", "done"
  step,     \* the loop variable step
  e,        \* the loop variable e
  acc,      \* acc: the acceptance fractions of the particles of this step
  proposed, \* newcoorde of every particle moved in this step, in order
  loc,      \* the other locals of the last particle update: [ratio, rand, accept]
  dat,      \* what each accumulator returned in the last step
  df,       \* df: one mapping per finished step
  wf_log,   \* the calls made to the wavefunction and the accumulators
  wf_upd,   \* the arguments of the last updateinternals call
  wf_configs, \* the configuration the wavefunction holds
  oin,      \* the arguments of an OBDMAccumulator: [mol, spin, electrons, nstep, warmup, naux]
  ob,       \* the accumulator's fields: [electrons, extra_config], and the error raised
  opc,      \* where it is: "new", "warmup", "ready", "call", "raised"
  oi,       \* the loop variable of the warmup loop and of the call's loop
  ocalls,   \* the number of finished estimation calls
  oens,     \* the walker ensemble handed to the estimation calls
  results,  \* results of the estimation call under way or last finished
  olog      \* what the accumulator has called, in order

distVars == <<geom, dcall, dret>>
guessVars == <<mol, gcall, gret>>
vmcVars == <<vin, coords, pc, step, e, acc, proposed, loc, dat, df, wf_log,
             wf_upd, wf_configs>>

obdmVars == <<oin, ob, opc, oi, ocalls, oens, results, olog>>

vars == <<geom, dcall, dret, mol, gcall, gret, vin, coords, pc, step, e, acc,
          proposed, loc, dat, df, wf_log, wf_upd, wf_configs, oin, ob, opc, oi,
          ocalls, oens, results, olog>>

-----------------------------------------------------------------------------
(* Bounds of the model *)

\* largest |x| and |y| of a reference position given to dist_i
MaxCoord == 3
\* largest |z| of a reference position given to dist_i
MaxZ == 1
\* largest number of walkers in an array handed to the distance layer
MaxConf == 2
\* largest number of particles in an array handed to the distance layer
MaxPart == 3
\* largest number of particles of one spin channel in an initial guess
MaxElec == 3
\* largest number of walkers asked of an initial guess
MaxGuessConf == 2
\* largest number of walkers of a vmc run
MaxWalkers == 2
\* largest number of particles (both channels) of a vmc run
MaxVmcElec == 2
\* largest nsteps of a vmc run
MaxSteps == 2
\* largest number of single-walker particle moves (nconf * nelec * nsteps) of
\* a vmc run
MaxMoves == 4
\* largest warmup of an OBDMAccumulator
MaxWarmup == 1
\* largest nstep of an OBDMAccumulator
MaxNstep == 2
\* largest naux of an OBDMAccumulator
MaxNaux == 1
\* largest number of walkers handed to an estimation call
MaxObWalkers == 1
\* largest number of estimation calls made on one accumulator
MaxCalls == 1
\* largest number of auxiliary points drawn for walkers over the calls made on
\* one accumulator (calls * nstep * walkers * pool size)
MaxObWork == 4

-----------------------------------------------------------------------------
(* 3-vectors and arrays *)

VAdd(a, b) == <<a[1] + b[1], a[2] + b[2], a[3] + b[3]>>
VSub(a, b) == <<a[1] - b[1], a[2] - b[2], a[3] - b[3]>>
Dot(a, b) == a[1] * b[1] + a[2] * b[2] + a[3] * b[3]
\* squared Euclidean length; ordering vectors by it orders them by length
Norm2(a) == Dot(a, a)
\* row vector times 3x3 matrix (np.dot(v, M))
VecMat(v, M) == <<v[1] * M[1][1] + v[2] * M[2][1] + v[3] * M[3][1],
                  v[1] * M[1][2] + v[2] * M[2][2] + v[3] * M[3][2],
                  v[1] * M[1][3] + v[2] * M[2][3] + v[3] * M[3][3]>>

\* An array of shape (nconf, n, 3): at[c][p] is the position of particle p
\* (1-based here, 0-based in the code) in walker c.
Array(nconf, n, at) == [nconf |-> nconf, n |-> n, at |-> at]
\* np.zeros((0, 0, 0))
EmptyArray == Array(0, 0, << >>)
\* configs[:, i:, :] for a 0-based start i
SliceFrom(configs, i) ==
  LET m == IF configs.n > i THEN configs.n - i ELSE 0
  IN  Array(configs.nconf, m,
            [c \in 1..configs.nconf |-> [p \in 1..m |-> configs.at[c][i + p]]])
\* configs[:, i, :] for a 0-based i: one position per walker
Column(configs, i) == [c \in 1..configs.nconf |-> configs.at[c][i + 1]]

-----------------------------------------------------------------------------
(* pyqmc/distance.py *)

\* RawDistance.dist_i: vec[:, np.newaxis, :] - configs
RawDistance_dist_i(configs, vec) ==
  [c \in 1..configs.nconf |->
     [p \in 1..configs.n |-> VSub(vec[c], configs.at[c][p])]]

\* self.point_list: np.array([m.ravel() for m in np.meshgrid(*[[0,1,2]]*3)]).T - 1
\* meshgrid's default 'xy' indexing makes the second coordinate the slowest.
point_list ==
  [t \in 1..27 |->
     LET u == t - 1
     IN  <<((u \div 3) % 3) - 1, (u \div 9) - 1, (u % 3) - 1>>]

\* self.shifts = np.dot(self.point_list, self._latvec)
shifts(latvec) == [t \in 1..27 |-> VecMat(point_list[t], latvec)]

\* np.argmin: the first index holding the minimum
ArgMin(s) ==
  CHOOSE t \in 1..Len(s) :
    /\ \A u \in 1..Len(s) : s[t] <= s[u]
    /\ \A u \in 1..(t - 1) : s[u] > s[t]

\* MinimalImageDistance.general_dist_i, mutated: the last minimum is taken
general_dist_i_lastmin(latvec, configs, vec) ==
  [c \in 1..configs.nconf |->
     [p \in 1..configs.n |->
        LET d1 == VSub(vec[c], configs.at[c][p])
            d1all == [t \in 1..27 |-> VAdd(d1, shifts(latvec)[t])]
            dists == [t \in 1..27 |-> Norm2(d1all[t])]
            last == CHOOSE t \in 1..27 :
                      /\ \A u \in 1..27 : dists[t] <= dists[u]
                      /\ \A u \in (t + 1)..27 : dists[u] > dists[t]
        IN  d1all[last]]]

\* MinimalImageDistance.general_dist_i
general_dist_i(latvec, configs, vec) ==
  [c \in 1..configs.nconf |->
     [p \in 1..configs.n |->
        LET d1 == VSub(vec[c], configs.at[c][p])
            d1all == [t \in 1..27 |-> VAdd(d1, shifts(latvec)[t])]
            dists == [t \in 1..27 |-> Norm2(d1all[t])]
        IN  d1all[ArgMin(dists)]]]

\* det(latvec) and the adjugate: np.linalg.inv(latvec) = Adjugate / Det
Adjugate(L) ==
  << <<L[2][2] * L[3][3] - L[2][3] * L[3][2],
       L[1][3] * L[3][2] - L[1][2] * L[3][3],
       L[1][2] * L[2][3] - L[1][3] * L[2][2]>>,
     <<L[2][3] * L[3][1] - L[2][1] * L[3][3],
       L[1][1] * L[3][3] - L[1][3] * L[3][1],
       L[1][3] * L[2][1] - L[1][1] * L[2][3]>>,
     <<L[2][1] * L[3][2] - L[2][2] * L[3][1],
       L[1][2] * L[3][1] - L[1][1] * L[3][2],
       L[1][1] * L[2][2] - L[1][2] * L[2][1]>> >>
Det(L) ==
  L[1][1] * Adjugate(L)[1][1] + L[1][2] * Adjugate(L)[2][1]
    + L[1][3] * Adjugate(L)[3][1]
Abs(x) == IF x < 0 THEN -x ELSE x

\* frac_disps = np.dot(d1, self._invvec), as numerators over |det|
FracNum(latvec, d1) ==
  LET s == IF Det(latvec) < 0 THEN -1 ELSE 1
      p == VecMat(d1, Adjugate(latvec))
  IN  <<s * p[1], s * p[2], s * p[3]>>

\* (frac_disps + 0.5) % 1 - 0.5 on a numerator f over D, as a numerator over
\* 2D.  numpy's % takes the sign of the divisor, as TLC's % does.
WrapNum(f, D) == ((2 * f + D) % (2 * D)) - D

\* MinimalImageDistance.orthogonal_dist_i.  The wrapped fraction differs from
\* the fraction by an integer, so the division by 2D is exact.
orthogonal_dist_i(latvec, configs, vec) ==
  [c \in 1..configs.nconf |->
     [p \in 1..configs.n |->
        LET d1 == VSub(vec[c], configs.at[c][p])
            D == Abs(Det(latvec))
            f == FracNum(latvec, d1)
            w == <<WrapNum(f[1], D), WrapNum(f[2], D), WrapNum(f[3], D)>>
            r == VecMat(w, latvec)
        IN  <<r[1] \div (2 * D), r[2] \div (2 * D), r[3] \div (2 * D)>>]]

\* x < ortho_tol for ortho_tol = 1e-10 and an integer dot product x
BelowOrthoTol(x) == x <= 0

\* the orthogonality test of MinimalImageDistance.__init__
orthogonal(latvec) ==
  /\ BelowOrthoTol(Dot(latvec[1], latvec[2]))
  /\ BelowOrthoTol(Dot(latvec[2], latvec[3]))
  /\ BelowOrthoTol(Dot(latvec[3], latvec[1]))

\* self.dist_i(configs, vec): the method bound at construction
dist_i(self, configs, vec) ==
  CASE self.dist_i = "RawDistance.dist_i" -> RawDistance_dist_i(configs, vec)
    [] self.dist_i = "orthogonal_dist_i" ->
         orthogonal_dist_i(self.latvec, configs, vec)
    [] self.dist_i = "general_dist_i" ->
         general_dist_i(self.latvec, configs, vec)

\* the loop of dist_matrix from 0-based i on, with vs and ij as built so far
RECURSIVE dist_matrix_loop(_, _, _, _, _)
dist_matrix_loop(self, configs, i, vs, ij) ==
  IF i >= configs.n
  THEN [vs |-> Array(configs.nconf, Len(ij), vs), ij |-> ij]
  ELSE LET d == dist_i(self, SliceFrom(configs, i + 1), Column(configs, i))
       IN  dist_matrix_loop(self, configs, i + 1,
             [c \in 1..configs.nconf |-> vs[c] \o d[c]],
             ij \o [k \in 1..(configs.n - i - 1) |-> <<i, i + k>>])

\* dist_matrix, mutated: the pairs are listed as (j, i)
dist_matrix_swapped(self, configs) ==
  LET r == dist_matrix_loop(self, configs, 0,
                            [c \in 1..configs.nconf |-> << >>], << >>)
  IN  IF (configs.n * (configs.n - 1)) \div 2 = 0
      THEN [vs |-> EmptyArray, ij |-> << >>]
      ELSE [vs |-> r.vs,
            ij |-> [k \in 1..Len(r.ij) |-> <<r.ij[k][2], r.ij[k][1]>>]]

\* RawDistance.dist_matrix (inherited by MinimalImageDistance)
dist_matrix(self, configs) ==
  IF (configs.n * (configs.n - 1)) \div 2 = 0
  THEN [vs |-> EmptyArray, ij |-> << >>]
  ELSE dist_matrix_loop(self, configs, 0,
                        [c \in 1..configs.nconf |-> << >>], << >>)

\* the loop of pairwise from 0-based i on
RECURSIVE pairwise_loop(_, _, _, _, _, _)
pairwise_loop(self, config1, config2, i, vs, ij) ==
  IF i >= config2.n
  THEN [vs |-> Array(config1.nconf, Len(ij), vs), ij |-> ij]
  ELSE LET d == dist_i(self, config1, Column(config2, i))
       IN  pairwise_loop(self, config1, config2, i + 1,
             [c \in 1..config1.nconf |-> vs[c] \o d[c]],
             ij \o [k \in 1..config1.n |-> <<i, k - 1>>])

\* pairwise, mutated: the tuples are written (j, i)
pairwise_swapped(self, config1, config2) ==
  LET r == pairwise_loop(self, config1, config2, 0,
                         [c \in 1..config1.nconf |-> << >>], << >>)
  IN  IF config1.n = 0 \/ config2.n = 0
      THEN [vs |-> EmptyArray, ij |-> << >>]
      ELSE [vs |-> r.vs,
            ij |-> [k \in 1..Len(r.ij) |-> <<r.ij[k][2], r.ij[k][1]>>]]

\* RawDistance.pairwise (inherited by MinimalImageDistance)
pairwise(self, config1, config2) ==
  IF config1.n = 0 \/ config2.n = 0
  THEN [vs |-> EmptyArray, ij |-> << >>]
  ELSE pairwise_loop(self, config1, config2, 0,
                     [c \in 1..config1.nconf |-> << >>], << >>)

-----------------------------------------------------------------------------
(* Inputs of the distance layer *)

\* lattices handed to MinimalImageDistance: cubic, rotated orthogonal,
\* left-handed orthogonal, acute skew, obtuse skew, singular
Lattices ==
  { << <<2, 0, 0>>, <<0, 2, 0>>, <<0, 0, 2>> >>,
    << <<1, 1, 0>>, <<-1, 1, 0>>, <<0, 0, 2>> >>,
    << <<0, 2, 0>>, <<2, 0, 0>>, <<0, 0, 2>> >>,
    << <<2, 0, 0>>, <<1, 2, 0>>, <<0, 0, 2>> >>,
    << <<2, 0, 0>>, <<-1, 2, 0>>, <<0, 0, 2>> >>,
    << <<1, 0, 0>>, <<2, 0, 0>>, <<0, 0, 1>> >> }

NoLattice == << <<0, 0, 0>>, <<0, 0, 0>>, <<0, 0, 0>> >>

\* reference positions of dist_i calls
RefPos ==
  { <<x, y, z>> : x \in (-MaxCoord)..MaxCoord, y \in (-MaxCoord)..MaxCoord,
                  z \in (-MaxZ)..MaxZ }
\* particle positions of dist_i calls
PartPos == { <<0, 0, 0>>, <<1, 0, 0>> }
\* particle positions of the arrays given to dist_matrix and pairwise
SmallPos == { <<0, 0, 0>>, <<1, 1, 0>> }

\* arrays of n particles over nconf walkers; walker c is the base
\* configuration moved by c - 1 along x
Configs(nconf, n) ==
  { Array(nconf, n,
          [c \in 1..nconf |-> [p \in 1..n |-> VAdd(base[p], <<c - 1, 0, 0>>)]]) :
      base \in [1..n -> SmallPos] }

NoCall == [op |-> "none", a |-> EmptyArray, b |-> EmptyArray]
NoRet == [vs |-> EmptyArray, ij |-> << >>]

Constructed ==
  geom.dist_i \in {"RawDistance.dist_i", "orthogonal_dist_i", "general_dist_i"}
Periodic == geom.dist_i \in {"orthogonal_dist_i", "general_dist_i"}
\* The distance object holds no state that a call changes, so one call per
\* object shows all there is to see: a call is made on a fresh object.
Fresh == dcall.op = "none"

\* RawDistance()
RawDistance_init ==
  /\ geom.dist_i = "none"
  /\ geom' = [dist_i |-> "RawDistance.dist_i", latvec |-> NoLattice]
  /\ UNCHANGED <<dcall, dret, guessVars, vmcVars, obdmVars>>

\* MinimalImageDistance(latvec); np.linalg.inv raises on a singular matrix
MinimalImageDistance_init ==
  /\ geom.dist_i = "none"
  /\ \E L \in Lattices :
       geom' = [dist_i |-> IF Det(L) = 0 THEN "LinAlgError"
                           ELSE IF orthogonal(L) THEN "orthogonal_dist_i"
                           ELSE "general_dist_i",
                latvec |-> L]
  /\ UNCHANGED <<dcall, dret, guessVars, vmcVars, obdmVars>>

\* one reference position and one particle, one walker
DistIArgs ==
  { <<Array(1, 1, << <<q>> >>), <<v>> >> : q \in PartPos, v \in RefPos }

\* obj.dist_i(configs, vec)
Call_dist_i ==
  /\ Constructed /\ Fresh
  /\ \E x \in DistIArgs :
       /\ dcall' = [op |-> "dist_i", a |-> x[1], b |-> x[2]]
       /\ dret' = [vs |-> Array(1, 1, dist_i(geom, x[1], x[2])), ij |-> << >>]
  /\ UNCHANGED <<geom, guessVars, vmcVars, obdmVars>>

\* obj.general_dist_i(configs, vec)
Call_general_dist_i ==
  /\ Periodic /\ Fresh
  /\ \E x \in DistIArgs :
       /\ dcall' = [op |-> "general_dist_i", a |-> x[1], b |-> x[2]]
       /\ dret' = [vs |-> Array(1, 1, general_dist_i(geom.latvec, x[1], x[2])),
                   ij |-> << >>]
  /\ UNCHANGED <<geom, guessVars, vmcVars, obdmVars>>

\* obj.orthogonal_dist_i(configs, vec)
Call_orthogonal_dist_i ==
  /\ Periodic /\ Fresh
  /\ \E x \in DistIArgs :
       /\ dcall' = [op |-> "orthogonal_dist_i", a |-> x[1], b |-> x[2]]
       /\ dret' = [vs |-> Array(1, 1, orthogonal_dist_i(geom.latvec, x[1], x[2])),
                   ij |-> << >>]
  /\ UNCHANGED <<geom, guessVars, vmcVars, obdmVars>>

\* obj.dist_matrix(configs)
Call_dist_matrix ==
  /\ Constructed /\ Fresh
  /\ \E nconf \in 0..MaxConf, n \in 0..MaxPart :
       \E configs \in Configs(nconf, n) :
         /\ dcall' = [op |-> "dist_matrix", a |-> configs, b |-> EmptyArray]
         /\ dret' = dist_matrix(geom, configs)
  /\ UNCHANGED <<geom, guessVars, vmcVars, obdmVars>>

\* obj.pairwise(config1, config2)
Call_pairwise ==
  /\ Constructed /\ Fresh
  /\ \E nconf \in 0..MaxConf, n1 \in 0..MaxPart, n2 \in 0..MaxPart :
       \E config1 \in Configs(nconf, n1), config2 \in Configs(nconf, n2) :
         /\ dcall' = [op |-> "pairwise", a |-> config1, b |-> config2]
         /\ dret' = pairwise(geom, config1, config2)
  /\ UNCHANGED <<geom, guessVars, vmcVars, obdmVars>>

NextDist ==
  \/ RawDistance_init
  \/ MinimalImageDistance_init
  \/ Call_dist_i
  \/ Call_general_dist_i
  \/ Call_orthogonal_dist_i
  \/ Call_dist_matrix
  \/ Call_pairwise

-----------------------------------------------------------------------------
(* mc.py: initial_guess and initial_guess_vectorize *)

RECURSIVE SumSeq(_)
SumSeq(q) == IF q = << >> THEN 0 ELSE Head(q) + SumSeq(Tail(q))

\* mol.nelec[s]*wts with wts = charges/sum(charges), as numerators over
\* sum(charges); s is 0 or 1
Weighted(m, s) == [k \in 1..Len(m.charges) |-> m.nelec[s + 1] * m.charges[k]]
\* np.floor(mol.nelec[s]*wts)
Floor(m, s) ==
  [k \in 1..Len(m.charges) |-> Weighted(m, s)[k] \div SumSeq(m.charges)]
\* nleft = mol.nelec[s]*wts - neach, as numerators over sum(charges)
Left(m, s) ==
  [k \in 1..Len(m.charges) |-> Weighted(m, s)[k] % SumSeq(m.charges)]

\* np.repeat(atoms, neach): atom k, neach[k] times, from atom k on
RECURSIVE Repeat(_, _)
Repeat(neach, k) ==
  IF k > Len(neach) THEN << >>
  ELSE [i \in 1..neach[k] |-> k] \o Repeat(neach, k + 1)

\* a slot of epos: the atomic site it was given, by which spin channel's
\* pass, and how often it was written; np.zeros leaves it unassigned
Unassigned == [atom |-> 0, spin |-> -1, writes |-> 0]
\* epos[start + i - 1] = sites[i] for every i (start is 0-based)
WriteSlots(row, start, sites, s) ==
  [k \in 1..Len(row) |->
     IF k - start \in 1..Len(sites)
     THEN [atom |-> sites[k - start], spin |-> s, writes |-> row[k].writes + 1]
     ELSE row[k]]

\* np.random.choice(len(wts), p=nleft, size=tot, replace=False) raises
\* ValueError unless p sums to 1
ChoiceRaises(m, s) == SumSeq(Left(m, s)) # SumSeq(m.charges)

\* one walker of initial_guess: gets[s + 1] is the atom np.random.choice drew
\* for channel s; count runs over both channels
GuessWalker(m, gets) ==
  LET zeros == [k \in 1..(m.nelec[1] + m.nelec[2]) |-> Unassigned]
      sites(s) == Repeat([k \in 1..Len(m.charges) |->
                            Floor(m, s)[k] + (IF k = gets[s + 1] THEN 1 ELSE 0)], 1)
      first == WriteSlots(zeros, 0, sites(0), 0)
  IN  WriteSlots(first, Len(sites(0)), sites(1), 1)

\* one walker of initial_guess_vectorize: inds[s + 1] are the atoms
\* np.digitize gave for the totleft particles of channel s
VectorizeWalker(m, inds) ==
  LET zeros == [k \in 1..(m.nelec[1] + m.nelec[2]) |-> Unassigned]
      nassigned(s) == SumSeq(Floor(m, s))
      ind0(s) == s * m.nelec[1]
      pass(row, s) ==
        WriteSlots(WriteSlots(row, ind0(s), Repeat(Floor(m, s), 1), s),
                   ind0(s) + nassigned(s), inds[s + 1], s)
  IN  pass(pass(zeros, 0), 1)

\* the atoms a leftover particle of channel s can be drawn for
Drawable(m, s) == { k \in 1..Len(m.charges) : Left(m, s)[k] > 0 }

\* atomic charges of the systems
ChargeLists ==
  { <<1>>, <<2>>, <<3>>, <<1, 1>>, <<3, 3>>, <<3, 1>>, <<1, 1, 1>>, <<8, 1, 1>> }

Mols == { [charges |-> q, nelec |-> ne] :
            q \in ChargeLists, ne \in (0..MaxElec) \X (0..MaxElec) }

NoGuess == [status |-> "none", epos |-> << >>]

\* initial_guess(mol, nconfig)
initial_guess ==
  /\ gcall.fn = "none"
  /\ \E nconfig \in 0..MaxGuessConf :
       /\ gcall' = [fn |-> "initial_guess", nconfig |-> nconfig]
       /\ IF nconfig > 0 /\ (ChoiceRaises(mol, 0) \/ ChoiceRaises(mol, 1))
          THEN gret' = [status |-> "ValueError", epos |-> << >>]
          ELSE \E gets \in [1..nconfig ->
                              Drawable(mol, 0) \X Drawable(mol, 1)] :
                 gret' = [status |-> "ok",
                          epos |-> [c \in 1..nconfig |->
                                      GuessWalker(mol, gets[c])]]
  /\ UNCHANGED <<mol, distVars, vmcVars, obdmVars>>

\* the atoms drawn for the totleft leftover particles of channel s
Draws(m, s) ==
  [1..(m.nelec[s + 1] - SumSeq(Floor(m, s))) -> Drawable(m, s)]

\* initial_guess_vectorize(mol, nconfig)
initial_guess_vectorize ==
  /\ gcall.fn = "none"
  /\ \E nconfig \in 0..MaxGuessConf :
       /\ gcall' = [fn |-> "initial_guess_vectorize", nconfig |-> nconfig]
       /\ \E inds \in [1..nconfig -> Draws(mol, 0) \X Draws(mol, 1)] :
            gret' = [status |-> "ok",
                     epos |-> [c \in 1..nconfig |->
                                 VectorizeWalker(mol, inds[c])]]
  /\ UNCHANGED <<mol, distVars, vmcVars, obdmVars>>

NextGuess ==
  \/ initial_guess
  \/ initial_guess_vectorize

-----------------------------------------------------------------------------
(* mc.py: vmc *)

\* A mean is a fraction [num, den]; the mean over nothing is NaN (den = 0).
NaN == [num |-> 0, den |-> 0]
IsNaN(x) == x.den = 0
\* np.mean of a list of integers
MeanInt(q) == IF Len(q) = 0 THEN NaN ELSE [num |-> SumSeq(q), den |-> Len(q)]
\* np.mean(accept): the fraction of walkers that accepted
MeanBool(mask) ==
  MeanInt([c \in 1..Len(mask) |-> IF mask[c] THEN 1 ELSE 0])
\* np.mean of a list of fractions of one denominator
MeanFrac(q) ==
  IF Len(q) = 0 \/ \E k \in 1..Len(q) : IsNaN(q[k]) THEN NaN
  ELSE [num |-> SumSeq([k \in 1..Len(q) |-> q[k].num]),
        den |-> q[1].den * Len(q)]
RECURSIVE SumVec(_)
SumVec(q) == IF q = << >> THEN <<0, 0, 0>> ELSE VAdd(Head(q), SumVec(Tail(q)))
\* np.mean(res, axis=0) of one 3-vector per walker
MeanVec(q) == IF Len(q) = 0 THEN NaN ELSE [num |-> SumVec(q), den |-> Len(q)]

\* testvalue returns ratios in halves, np.random.rand draws in halves, and
\* the proposal adds one of two displacements
Ratios == {-2, 0, 1, 2}
Uniforms == {0, 1}
Noise == { <<0, 0, 1>>, <<0, 0, -1>> }
\* the per-walker values the energy accumulator returns
EnergyVals == {0, 1}

\* accept = ratio**2 > np.random.rand(nconf), mutated: the ratio is not squared
AcceptMaskUnsquared(ratio, rand) ==
  [c \in 1..Len(ratio) |-> 2 * ratio[c] > 2 * rand[c]]

\* accept = ratio**2 > np.random.rand(nconf); (r/2)^2 > u/2 iff r*r > 2u
AcceptMask(ratio, rand) ==
  [c \in 1..Len(ratio) |-> ratio[c] * ratio[c] > 2 * rand[c]]

\* coords[accept, e, :] = newcoorde[accept, :], mutated: every walker is written
CommitAll(cs, p, newcoorde, accept) ==
  [c \in 1..Len(cs) |-> [cs[c] EXCEPT ![p + 1] = newcoorde[c]]]

\* coords[accept, e, :] = newcoorde[accept, :]
Commit(cs, p, newcoorde, accept) ==
  [c \in 1..Len(cs) |->
     IF accept[c] THEN [cs[c] EXCEPT ![p + 1] = newcoorde[c]] ELSE cs[c]]

\* the calls of one particle update, mutated: the wavefunction is told first
UpdateCallsSwapped(st, p) ==
  << <<"updateinternals", st, p>>, <<"testvalue", st, p>> >>

\* the calls of one particle update: testvalue, then updateinternals
UpdateCalls(st, p) ==
  << <<"testvalue", st, p>>, <<"updateinternals", st, p>> >>

\* accumulators=None stands for {'energy': energy}
\* (None is the empty record here, a dictionary the list of its names)
None == [none |-> TRUE]
AccumulatorNames(given) == IF given = None THEN <<"energy">> ELSE given.names

\* what the accumulator named k returns: energy (not in this file) gives a
\* 'total' per walker, dipole (defined in test()) gives np.sum(coords, axis=1)
Accumulator(k, cs, en) ==
  IF k = "dipole" THEN ("vec" :> [c \in 1..Len(cs) |-> SumVec(cs[c])])
  ELSE ("total" :> en)

\* np.mean(res, axis=0)
MeanAxis0(k, res) == IF k = "dipole" THEN MeanVec(res) ELSE MeanInt(res)

\* avg[k+m] = ..., mutated: the key is the sub-quantity name alone
AvgKeyBare(k, m) == m

\* the key k+m
AvgKey(k, m) == k \o m

\* the loop over accumulators.items() filling avg, from accumulator i on
RECURSIVE FillAvg(_, _, _, _)
FillAvg(names, dats, i, avg) ==
  IF i > Len(names) THEN avg
  ELSE LET k == names[i]
           new == [key \in { AvgKey(k, m) : m \in DOMAIN dats[k] } |->
                     LET m == CHOOSE m \in DOMAIN dats[k] : AvgKey(k, m) = key
                     IN  MeanAxis0(k, dats[k][m])]
       IN  FillAvg(names, dats, i + 1, new @@ avg)

\* the systems, walker counts, step counts, accumulator sets and
\* wavefunctions of the runs
VmcInputs ==
  { x \in [nelec : { <<(n + 1) \div 2, n \div 2>> : n \in 0..MaxVmcElec },
           nconf : 0..MaxWalkers,
           nsteps : 0..MaxSteps,
           accumulators : {None, [names |-> <<"energy">>],
                           [names |-> <<"energy", "dipole">>]},
           wf : {[kind |-> "any", value |-> 0]}
                  \cup { [kind |-> "const", value |-> r] : r \in Ratios }] :
      x.nconf * (x.nelec[1] + x.nelec[2]) * x.nsteps <= MaxMoves }

\* nelec = np.sum(mol.nelec)
Nelec == vin.nelec[1] + vin.nelec[2]

\* the ensemble handed to vmc
StartCoords(nc, ne) == [c \in 1..nc |-> [p \in 1..ne |-> <<p, c, 0>>]]

NoLocals == [ratio |-> << >>, rand |-> << >>, accept |-> << >>]
NoUpdate == [e |-> -1, epos |-> << >>, accept |-> << >>]

\* lines 60-65: the defaults, df = [] and wf.recompute(coords)
VmcStart ==
  /\ pc = "call"
  /\ pc' = "step"
  /\ wf_log' = << <<"recompute", 0, 0>> >>
  /\ wf_configs' = coords
  /\ UNCHANGED <<vin, coords, step, e, acc, proposed, loc, dat, df, wf_upd,
                 distVars, guessVars, obdmVars>>

\* lines 66-68: the next step begins with acc = []
StepBegin ==
  /\ pc = "step" /\ step < vin.nsteps
  /\ acc' = << >>
  /\ proposed' = << >>
  /\ e' = 0
  /\ pc' = IF Nelec > 0 THEN "particle" ELSE "accumulate"
  /\ UNCHANGED <<vin, coords, step, loc, dat, df, wf_log, wf_upd, wf_configs,
                 distVars, guessVars, obdmVars>>

\* what wf.testvalue may return
TestValues ==
  IF vin.wf.kind = "const" THEN {[c \in 1..vin.nconf |-> vin.wf.value]}
  ELSE [1..vin.nconf -> Ratios]

\* lines 69-75: the update of particle e
ParticleUpdate ==
  /\ pc = "particle"
  /\ \E noise \in [1..vin.nconf -> Noise], ratio \in TestValues,
        rand \in [1..vin.nconf -> Uniforms] :
       LET newcoorde == [c \in 1..vin.nconf |-> VAdd(coords[c][e + 1], noise[c])]
           accept == AcceptMask(ratio, rand)
           after == Commit(coords, e, newcoorde, accept)
           epos == [c \in 1..vin.nconf |-> after[c][e + 1]]
       IN  /\ coords' = after
           /\ proposed' = Append(proposed, newcoorde)
           /\ loc' = [ratio |-> ratio, rand |-> rand, accept |-> accept]
           /\ acc' = Append(acc, MeanBool(accept))
           /\ wf_log' = wf_log \o UpdateCalls(step, e)
           /\ wf_upd' = [e |-> e, epos |-> epos, accept |-> accept]
           /\ wf_configs' =
                [c \in 1..vin.nconf |->
                   IF accept[c] THEN [wf_configs[c] EXCEPT ![e + 1] = epos[c]]
                   ELSE wf_configs[c]]
  /\ e' = e + 1
  /\ pc' = IF e + 1 < Nelec THEN "particle" ELSE "accumulate"
  /\ UNCHANGED <<vin, step, dat, df, distVars, guessVars, obdmVars>>

\* lines 76-82: the accumulators are called and the step's entry is appended
Accumulate ==
  /\ pc = "accumulate"
  /\ \E en \in [1..vin.nconf -> EnergyVals] :
       LET names == AccumulatorNames(vin.accumulators)
           dats == [k \in { names[i] : i \in 1..Len(names) } |->
                      Accumulator(k, coords, en)]
           avg == FillAvg(names, dats, 1, << >>)
       IN  /\ dat' = dats
           /\ df' = Append(df, ("acceptance" :> MeanFrac(acc)) @@ avg)
           /\ wf_log' = wf_log \o
                          [i \in 1..Len(names) |-> <<"accumulator", step, names[i]>>]
  /\ step' = step + 1
  /\ pc' = "step"
  /\ UNCHANGED <<vin, coords, e, acc, proposed, loc, wf_upd, wf_configs,
                 distVars, guessVars, obdmVars>>

\* line 83: return df
VmcReturn ==
  /\ pc = "step" /\ step >= vin.nsteps
  /\ pc' = "done"
  /\ UNCHANGED <<vin, coords, step, e, acc, proposed, loc, dat, df, wf_log,
                 wf_upd, wf_configs, distVars, guessVars, obdmVars>>

NextVmc ==
  \/ VmcStart
  \/ StepBegin
  \/ ParticleUpdate
  \/ Accumulate
  \/ VmcReturn

-----------------------------------------------------------------------------
(* pyqmc/obdm.py *)

\* an optional argument: None, or a value
Nothing == [given |-> FALSE]
Some(v) == [given |-> TRUE, value |-> v]

\* np.arange(a, b)
Arange(a, b) == [k \in 1..(b - a) |-> a + k - 1]

\* lines 41-51 of __init__, mutated: a spin that is neither 0 nor 1 selects
\* every particle
SelectElectronsFallback(spin, electrons, nelec) ==
  IF spin.given /\ spin.value = 0
  THEN [raised |-> FALSE, electrons |-> Arange(0, nelec[1])]
  ELSE IF spin.given /\ spin.value = 1
  THEN [raised |-> FALSE, electrons |-> Arange(nelec[1], nelec[1] + nelec[2])]
  ELSE IF ~spin.given /\ electrons.given
  THEN [raised |-> FALSE, electrons |-> electrons.value]
  ELSE [raised |-> FALSE, electrons |-> Arange(0, nelec[1] + nelec[2])]

\* lines 41-51 of __init__: self._electrons, or ValueError
SelectElectrons(spin, electrons, nelec) ==
  IF spin.given
  THEN IF spin.value = 0
       THEN [raised |-> FALSE, electrons |-> Arange(0, nelec[1])]
       ELSE IF spin.value = 1
       THEN [raised |-> FALSE,
             electrons |-> Arange(nelec[1], nelec[1] + nelec[2])]
       ELSE [raised |-> TRUE, electrons |-> << >>]
  ELSE IF electrons.given
  THEN [raised |-> FALSE, electrons |-> electrons.value]
  ELSE [raised |-> FALSE, electrons |-> Arange(0, nelec[1] + nelec[2])]

\* initial_guess(...).reshape(-1, 3): the walkers' particles in one list; a
\* particle assigned to atom k starts at <<k, 0, 0>>
RECURSIVE Flatten(_)
Flatten(rows) == IF rows = << >> THEN << >> ELSE Head(rows) \o Flatten(Tail(rows))
SeedPool(m, nconfig, gets) ==
  LET flat == Flatten([c \in 1..nconfig |-> GuessWalker(m, gets[c])])
  IN  [k \in 1..Len(flat) |-> <<flat[k].atom, 0, 0>>]

\* the displacement sample_onebody proposes
ObNoise == { <<0, 0, 1>> }

\* sample_onebody, mutated: config_pack, the old and the proposed points, is
\* returned
sample_onebody_pack(configs, noise, accept) ==
  configs \o [k \in 1..Len(configs) |-> VAdd(configs[k], noise[k])]

\* sample_onebody: configs[accept, :] = newconf[accept, :]
sample_onebody(configs, noise, accept) ==
  [k \in 1..Len(configs) |->
     IF accept[k] THEN VAdd(configs[k], noise[k]) ELSE configs[k]]

\* systems: H2, He, H2+ and no particles at all
ObMols ==
  { [charges |-> <<1, 1>>, nelec |-> <<1, 1>>],
    [charges |-> <<2>>, nelec |-> <<1, 1>>],
    [charges |-> <<1, 1>>, nelec |-> <<1, 0>>],
    [charges |-> <<1, 1>>, nelec |-> <<0, 0>>] }

\* the arguments of the constructor; a subset that is empty or names a
\* particle the system does not have is tried where the subset is used, that
\* is where no valid spin overrides it
ObInputs ==
  { x \in [mol : ObMols,
           spin : {Nothing, Some(0), Some(1), Some(2), Some(-1)},
           electrons : {Nothing, Some(<<1>>), Some(<<2>>), Some(<< >>)},
           nstep : 0..MaxNstep,
           warmup : 0..MaxWarmup,
           naux : 0..MaxNaux] :
      x.spin \in {Some(0), Some(1)} =>
        x.electrons \in {Nothing, Some(<<1>>)} }

\* the ratios wf.testvalue returns to the accumulator
ObRatios == {1, 2}

NoObject == [electrons |-> << >>, extra_config |-> << >>, error |-> "none"]
NoResults == [value |-> << >>, norm |-> << >>, acceptance |-> << >>,
              averaged |-> FALSE]
IdleOin == [mol |-> [charges |-> <<1>>, nelec |-> <<0, 0>>], spin |-> Nothing,
            electrons |-> Nothing, nstep |-> 0, warmup |-> 0, naux |-> 0]

Raise(msg) ==
  /\ ob' = [ob EXCEPT !.error = msg]
  /\ opc' = "raised"
  /\ UNCHANGED <<oi, olog>>

\* lines 37-60 of __init__: the particle subset, the fields, the seeded pool
OBDM_init ==
  /\ opc = "new"
  /\ LET sel == SelectElectrons(oin.spin, oin.electrons, oin.mol.nelec)
         nelec == oin.mol.nelec[1] + oin.mol.nelec[2]
     IN  IF sel.raised THEN Raise("ValueError: Spin not equal to 0 or 1")
         ELSE IF nelec = 0 THEN Raise("ZeroDivisionError")
         ELSE IF ChoiceRaises(oin.mol, 0) \/ ChoiceRaises(oin.mol, 1)
         THEN Raise("ValueError: probabilities do not sum to 1")
         ELSE \E gets \in [1..((oin.naux \div nelec) + 1) ->
                             Drawable(oin.mol, 0) \X Drawable(oin.mol, 1)] :
                /\ ob' = [electrons |-> sel.electrons,
                          extra_config |->
                            SeedPool(oin.mol, (oin.naux \div nelec) + 1, gets),
                          error |-> "none"]
                /\ olog' = <<"initial_guess">>
                /\ oi' = 0
                /\ opc' = "warmup"
  /\ UNCHANGED <<oin, ocalls, oens, results, distVars, guessVars, vmcVars>>

\* lines 62-65: one sweep of the warmup loop
WarmupSweep ==
  /\ opc = "warmup" /\ oi < oin.warmup
  /\ \E noise \in [1..Len(ob.extra_config) -> ObNoise],
        accept \in [1..Len(ob.extra_config) -> BOOLEAN] :
       ob' = [ob EXCEPT !.extra_config = sample_onebody(@, noise, accept)]
  /\ olog' = Append(olog, "sample_onebody")
  /\ oi' = oi + 1
  /\ UNCHANGED <<oin, opc, ocalls, oens, results, distVars, guessVars, vmcVars>>

\* the warmup loop ends and __init__ returns
OBDM_constructed ==
  /\ opc = "warmup" /\ oi >= oin.warmup
  /\ opc' = "ready"
  /\ UNCHANGED <<oin, ob, oi, ocalls, oens, results, olog, distVars, guessVars,
                 vmcVars>>

\* lines 70-79 of __call__: the zeroed results
CallBegin ==
  /\ opc = "ready" /\ ocalls < MaxCalls
  /\ (ocalls + 1) * oin.nstep * Len(oens) * Len(ob.extra_config) <= MaxObWork
  /\ results' = NoResults
  /\ oi' = 0
  /\ opc' = "call"
  /\ olog' = Append(olog, "__call__")
  /\ UNCHANGED <<oin, ob, ocalls, oens, distVars, guessVars, vmcVars>>

\* the pool the amplitudes and the move ratio of a repetition are evaluated
\* on, mutated: the pool as the repetition's sweep leaves it
AuxPoolSwept(pool, swept) == swept

\* the pool the amplitudes (lines 84-92) and the move ratio (line 95) of a
\* repetition are evaluated on: self._extra_config before the sweep of line 106
AuxPool(pool, swept) == pool

\* the factor of the contribution to value, mutated: the particle count of
\* the system
ValueScaleTotal(electrons, m) == m.nelec[1] + m.nelec[2]

\* line 79: nelec = len(self._electrons), the factor of line 103
ValueScale(electrons, m) == Len(electrons)

\* line 82 raises when self._electrons is empty, line 84 when the particle
\* drawn is not one of the ensemble
CallRaises ==
  /\ opc = "call" /\ oi < oin.nstep
  /\ \/ /\ Len(ob.electrons) = 0
        /\ ob' = [ob EXCEPT !.error = "ValueError: a must be non-empty"]
     \/ /\ \E k \in 1..Len(ob.electrons) : ob.electrons[k] >= Len(oens[1])
        /\ ob' = [ob EXCEPT !.error = "IndexError"]
  /\ opc' = "raised"
  /\ UNCHANGED <<oin, oi, ocalls, oens, results, olog, distVars, guessVars,
                 vmcVars>>

\* lines 82-110: one repetition of the estimation loop.  e is drawn from
\* self._electrons, an auxiliary point for every walker, and the sweep comes
\* last.  A contribution is kept as its factors: nelec, wfratio, and the
\* positions the orbitals of orbratio are evaluated at.
CallRepetition ==
  /\ opc = "call" /\ oi < oin.nstep
  /\ Len(ob.electrons) > 0 /\ Len(ob.extra_config) > 0
  /\ \E k \in 1..Len(ob.electrons),
        auxassignments \in [1..Len(oens) -> 1..Len(ob.extra_config)],
        wfratio \in [1..Len(oens) -> ObRatios],
        noise \in [1..Len(ob.extra_config) -> ObNoise],
        accept \in [1..Len(ob.extra_config) -> BOOLEAN] :
       LET el == ob.electrons[k]
           nelec == ValueScale(ob.electrons, oin.mol)
           swept == sample_onebody(ob.extra_config, noise, accept)
           aux == [c \in 1..Len(oens) |->
                     AuxPool(ob.extra_config, swept)[auxassignments[c]]]
       IN  /\ el < Len(oens[1])
           /\ results' =
                [results EXCEPT
                   !.value = Append(@, [nelec |-> nelec, e |-> el,
                                        wfratio |-> wfratio, aux |-> aux]),
                   !.norm = Append(@, aux),
                   !.acceptance = Append(@, MeanBool(accept))]
           /\ olog' = olog \o <<"testvalue", "sample_onebody">>
           /\ ob' = [ob EXCEPT !.extra_config = swept]
  /\ oi' = oi + 1
  /\ UNCHANGED <<oin, opc, ocalls, oens, distVars, guessVars, vmcVars>>

\* lines 112-116: the sums are divided by nstep and returned
CallEnd ==
  /\ opc = "call" /\ oi >= oin.nstep
  /\ results' = [results EXCEPT !.averaged = TRUE]
  /\ ocalls' = ocalls + 1
  /\ opc' = "ready"
  /\ UNCHANGED <<oin, ob, oi, oens, olog, distVars, guessVars, vmcVars>>

NextObdm ==
  \/ OBDM_init
  \/ WarmupSweep
  \/ OBDM_constructed
  \/ CallBegin
  \/ CallRepetition
  \/ CallRaises
  \/ CallEnd

-----------------------------------------------------------------------------
(* Specifications: each starts one subsystem and leaves the others idle *)

IdleGeom == [dist_i |-> "none", latvec |-> NoLattice]
IdleMol == [charges |-> <<1>>, nelec |-> <<0, 0>>]
IdleGuessCall == [fn |-> "none", nconfig |-> 0]
IdleVin == [nelec |-> <<0, 0>>, nconf |-> 0, nsteps |-> 0,
            accumulators |-> [none |-> TRUE], wf |-> [kind |-> "any", value |-> 0]]

InitDist ==
  /\ geom = IdleGeom /\ dcall = NoCall /\ dret = NoRet
  /\ mol = IdleMol /\ gcall = IdleGuessCall /\ gret = NoGuess
  /\ vin = IdleVin /\ coords = << >> /\ pc = "idle" /\ step = 0 /\ e = 0
  /\ acc = << >> /\ proposed = << >> /\ loc = NoLocals /\ dat = << >>
  /\ df = << >> /\ wf_log = << >> /\ wf_upd = NoUpdate /\ wf_configs = << >>
  /\ oin = IdleOin /\ ob = NoObject /\ opc = "idle" /\ oi = 0 /\ ocalls = 0
  /\ oens = << >> /\ results = NoResults /\ olog = << >>

InitGuess ==
  /\ geom = IdleGeom /\ dcall = NoCall /\ dret = NoRet
  /\ mol \in Mols /\ gcall = IdleGuessCall /\ gret = NoGuess
  /\ vin = IdleVin /\ coords = << >> /\ pc = "idle" /\ step = 0 /\ e = 0
  /\ acc = << >> /\ proposed = << >> /\ loc = NoLocals /\ dat = << >>
  /\ df = << >> /\ wf_log = << >> /\ wf_upd = NoUpdate /\ wf_configs = << >>
  /\ oin = IdleOin /\ ob = NoObject /\ opc = "idle" /\ oi = 0 /\ ocalls = 0
  /\ oens = << >> /\ results = NoResults /\ olog = << >>

InitVmc ==
  /\ geom = IdleGeom /\ dcall = NoCall /\ dret = NoRet
  /\ mol = IdleMol /\ gcall = IdleGuessCall /\ gret = NoGuess
  /\ vin \in VmcInputs
  /\ coords = StartCoords(vin.nconf, vin.nelec[1] + vin.nelec[2])
  /\ pc = "call" /\ step = 0 /\ e = 0
  /\ acc = << >> /\ proposed = << >> /\ loc = NoLocals /\ dat = << >>
  /\ df = << >> /\ wf_log = << >> /\ wf_upd = NoUpdate /\ wf_configs = << >>
  /\ oin = IdleOin /\ ob = NoObject /\ opc = "idle" /\ oi = 0 /\ ocalls = 0
  /\ oens = << >> /\ results = NoResults /\ olog = << >>

SpecDist == InitDist /\ [][NextDist]_vars

SpecGuess == InitGuess /\ [][NextGuess]_vars

InitObdm ==
  /\ geom = IdleGeom /\ dcall = NoCall /\ dret = NoRet
  /\ mol = IdleMol /\ gcall = IdleGuessCall /\ gret = NoGuess
  /\ vin = IdleVin /\ coords = << >> /\ pc = "idle" /\ step = 0 /\ e = 0
  /\ acc = << >> /\ proposed = << >> /\ loc = NoLocals /\ dat = << >>
  /\ df = << >> /\ wf_log = << >> /\ wf_upd = NoUpdate /\ wf_configs = << >>
  /\ oin \in ObInputs /\ ob = NoObject /\ opc = "new" /\ oi = 0 /\ ocalls = 0
  /\ oens \in { StartCoords(nc, oin.mol.nelec[1] + oin.mol.nelec[2]) :
                  nc \in 1..MaxObWalkers }
  /\ results = NoResults /\ olog = << >>

SpecVmc == InitVmc /\ [][NextVmc]_vars

SpecObdm == InitObdm /\ [][NextObdm]_vars

-----------------------------------------------------------------------------
(* Properties of the distance layer *)

\* the displacement dist_i gives for reference position v and particle q
PairDisp(self, v, q) == dist_i(self, Array(1, 1, << <<q>> >>), <<v>>)[1][1]

\* C1: dist_matrix returns exactly n(n-1)/2 index pairs (i,j), i < j, in the
\* canonical order (i ascending, then j ascending), the k-th displacement row
\* being the displacement of the k-th pair; for n < 2 it returns the empty
\* array and the empty list.
C1_DistMatrixCanonical ==
  dcall.op = "dist_matrix" =>
    LET n == dcall.a.n
        ij == dret.ij
    IN  /\ Len(ij) = (n * (n - 1)) \div 2
        /\ \A k \in 1..Len(ij) :
             /\ 0 <= ij[k][1] /\ ij[k][1] < ij[k][2] /\ ij[k][2] <= n - 1
             /\ k < Len(ij) =>
                  \/ ij[k][1] < ij[k + 1][1]
                  \/ ij[k][1] = ij[k + 1][1] /\ ij[k][2] < ij[k + 1][2]
        /\ n < 2 => dret.vs = EmptyArray /\ ij = << >>
        /\ n >= 2 =>
             /\ dret.vs.nconf = dcall.a.nconf
             /\ dret.vs.n = Len(ij)
             /\ \A c \in 1..dcall.a.nconf : \A k \in 1..Len(ij) :
                  dret.vs.at[c][k] =
                    PairDisp(geom, dcall.a.at[c][ij[k][1] + 1],
                             dcall.a.at[c][ij[k][2] + 1])

C1_Witness ==
  /\ dcall.op = "dist_matrix"
  /\ geom.dist_i = "general_dist_i"
  /\ dcall.a.n = 3 /\ dcall.a.nconf = 2
  /\ dret.ij = << <<0, 1>>, <<0, 2>>, <<1, 2>> >>

\* a pairwise call with a 1-particle set A and a 3-particle set B, 2 walkers
OneByThree ==
  /\ dcall.op = "pairwise"
  /\ dcall.a.n = 1 /\ dcall.b.n = 3 /\ dcall.a.nconf = 2

\* C2 as stated: such a call returns a 2 x 3 x 3 array and the index list
\* (0,0), (0,1), (0,2).
C2_Original ==
  OneByThree =>
    /\ dret.vs.nconf = 2 /\ dret.vs.n = 3
    /\ \A c \in 1..2 : \A k \in 1..3 : Len(dret.vs.at[c][k]) = 3
    /\ dret.ij = << <<0, 0>>, <<0, 1>>, <<0, 2>> >>

\* C2 as amended: such a call returns a 2 x 3 x 3 array and the index list
\* (0,0), (1,0), (2,0): the first component of a tuple indexes the particle
\* of B, the second the particle of A, and row k is the displacement from
\* A's particle to B's k-th particle.
C2_PairwiseOneByThree ==
  OneByThree =>
    /\ dret.vs.nconf = 2 /\ dret.vs.n = 3
    /\ \A c \in 1..2 : \A k \in 1..3 : Len(dret.vs.at[c][k]) = 3
    /\ dret.ij = << <<0, 0>>, <<1, 0>>, <<2, 0>> >>
    /\ \A c \in 1..2 : \A k \in 1..3 :
         dret.vs.at[c][k] = PairDisp(geom, dcall.b.at[c][k], dcall.a.at[c][1])

C2_Witness == OneByThree /\ Len(dret.ij) = 3 /\ geom.dist_i = "RawDistance.dist_i"

\* the raw displacement vec - configs of a dist_i call
RawDisp == VSub(dcall.b[1], dcall.a.at[1][1])

\* C3 as stated: on every lattice MinimalImageDistance accepts, the
\* displacement dist_i returns is no longer than the raw displacement and
\* none of the 27 images of the raw displacement is strictly shorter.
C3_MinimumImage ==
  (dcall.op = "dist_i" /\ Periodic) =>
    /\ Norm2(dret.vs.at[1][1]) <= Norm2(RawDisp)
    /\ \A t \in 1..27 :
         Norm2(VAdd(RawDisp, shifts(geom.latvec)[t])) >= Norm2(dret.vs.at[1][1])

\* the three lattice vectors are mutually orthogonal
MutuallyOrthogonal(latvec) ==
  /\ Dot(latvec[1], latvec[2]) = 0
  /\ Dot(latvec[2], latvec[3]) = 0
  /\ Dot(latvec[3], latvec[1]) = 0

\* the result of the last call is what both paths give
PathsAgree ==
  /\ dret.vs.at = orthogonal_dist_i(geom.latvec, dcall.a, dcall.b)
  /\ dret.vs.at = general_dist_i(geom.latvec, dcall.a, dcall.b)

PathCall == dcall.op \in {"orthogonal_dist_i", "general_dist_i"}

WithinOneAndAHalfCells ==
  LET D == Abs(Det(geom.latvec))
      f == FracNum(geom.latvec, RawDisp)
  IN  \A k \in 1..3 : -3 * D <= 2 * f[k] /\ 2 * f[k] < 3 * D

AdjugateIsInverse ==
  \A i \in 1..3 :
    VecMat(geom.latvec[i], Adjugate(geom.latvec)) =
      [k \in 1..3 |-> IF k = i THEN Det(geom.latvec) ELSE 0]

\* C12 as stated: the constructor binds the orthogonal path only when the
\* three lattice vectors are mutually orthogonal, and binds the 27-image
\* search for every lattice with a pairwise dot product away from zero,
\* positive or negative.  (Dot products are integers here, so within 1e-10
\* of zero means zero.)
C12_FastPathOnlyIfOrthogonal ==
  Periodic =>
    (geom.dist_i = "orthogonal_dist_i" <=> MutuallyOrthogonal(geom.latvec))

-----------------------------------------------------------------------------
(* Properties of the initial guess *)

\* C5 as stated: for every system and walker count both functions complete,
\* and in the ensemble returned every walker has its first nelec[0] slots
\* assigned by channel 0 and its next nelec[1] slots by channel 1, every
\* slot written exactly once.
C5_GuessCompletes ==
  gcall.fn # "none" =>
    /\ gret.status = "ok"
    /\ Len(gret.epos) = gcall.nconfig
    /\ \A c \in 1..Len(gret.epos) :
         /\ Len(gret.epos[c]) = mol.nelec[1] + mol.nelec[2]
         /\ \A k \in 1..Len(gret.epos[c]) :
              /\ gret.epos[c][k].atom \in 1..Len(mol.charges)
              /\ gret.epos[c][k].writes = 1
              /\ gret.epos[c][k].spin = (IF k <= mol.nelec[1] THEN 0 ELSE 1)

-----------------------------------------------------------------------------
(* Properties of vmc *)

\* testvalue returns one constant of magnitude at least 1 (2 halves)
AlwaysAccepts == vin.wf.kind = "const" /\ vin.wf.value * vin.wf.value >= 4

\* the first step of a two-particle, two-walker run has just finished
AfterFirstStep ==
  /\ vin.nconf = 2 /\ Nelec = 2
  /\ pc \in {"step", "done"} /\ Len(df) = 1

\* C6: with a wavefunction whose testvalue is a constant of magnitude at
\* least 1, after one step of a two-particle, two-walker run every particle
\* of every walker holds its proposed position, none its position before the
\* step, and the step's "acceptance" is exactly 1.
C6_AllParticlesMove ==
  (AlwaysAccepts /\ AfterFirstStep) =>
    /\ \A c \in 1..2 : \A p \in 1..2 :
         /\ coords[c][p] = proposed[p][c]
         /\ coords[c][p] # StartCoords(2, 2)[c][p]
    /\ df[1]["acceptance"].den > 0
    /\ df[1]["acceptance"].num = df[1]["acceptance"].den

C6_Witness ==
  /\ AlwaysAccepts /\ AfterFirstStep
  /\ vin.wf.value < 0
  /\ df[1]["acceptance"] = [num |-> 4, den |-> 4]

\* C7 as stated: a run over no walkers, or over no particles, is a no-op
\* with an empty result, and takes no mean over an empty collection.
C7_EmptyRunIsNoOp ==
  (pc # "idle" /\ (vin.nconf = 0 \/ Nelec = 0)) =>
    /\ \A k \in 1..Len(df) : ~IsNaN(df[k]["acceptance"])
    /\ pc = "done" => df = << >>

\* C9: a run returns one mapping per step, in step order; the mapping of a
\* step holds the mean over walkers of every sub-quantity m of every
\* accumulator k under the key k+m, the mean over particles of the step's
\* acceptance fractions under "acceptance", and nothing else.
C9_StepEntries ==
  /\ pc = "done" => Len(df) = vin.nsteps
  /\ pc \in {"step", "done"} => Len(df) = step
  /\ (pc \in {"step", "done"} /\ Len(df) > 0) =>
       LET entry == df[Len(df)]
           names == AccumulatorNames(vin.accumulators)
           accepted == SumSeq([p \in 1..Len(acc) |-> acc[p].num])
       IN  /\ DOMAIN entry =
                UNION { { names[i] \o m : m \in DOMAIN dat[names[i]] } :
                          i \in 1..Len(names) }
                  \cup {"acceptance"}
           /\ \A i \in 1..Len(names) : \A m \in DOMAIN dat[names[i]] :
                LET res == dat[names[i]][m]
                    mean == entry[names[i] \o m]
                IN  /\ Len(res) = vin.nconf
                    /\ mean.den = vin.nconf
                    /\ vin.nconf > 0 =>
                         mean.num = (IF m = "vec" THEN SumVec(res) ELSE SumSeq(res))
           /\ Len(acc) = Nelec
           /\ entry["acceptance"].den = vin.nconf * Nelec
           /\ vin.nconf * Nelec > 0 => entry["acceptance"].num = accepted

C9_Witness ==
  /\ pc = "done" /\ Len(df) = 2 /\ vin.nconf = 2
  /\ DOMAIN df[2] = {"energytotal", "dipolevec", "acceptance"}
  /\ df[2]["acceptance"] = [num |-> 1, den |-> 2]
  /\ df[2]["energytotal"] = [num |-> 1, den |-> 2]

\* the calls a whole run makes, in order
ExpectedCalls ==
  LET names == AccumulatorNames(vin.accumulators)
  IN  << <<"recompute", 0, 0>> >> \o
      Flatten([s \in 1..vin.nsteps |->
                 Flatten([p \in 1..Nelec |->
                            << <<"testvalue", s - 1, p - 1>>,
                               <<"updateinternals", s - 1, p - 1>> >>])
                   \o [i \in 1..Len(names) |-> <<"accumulator", s - 1, names[i]>>]])

IsPrefix(a, b) == Len(a) <= Len(b) /\ \A i \in 1..Len(a) : a[i] = b[i]

\* C10: recompute is called once, before everything else; the steps run in
\* increasing order; within a step the particles are taken in increasing
\* order, testvalue(e) then updateinternals(e), so that the wavefunction
\* holds the committed positions when the next particle is proposed; the
\* accumulators are called once per step, after the step's last particle.
C10_CallOrder ==
  LET calls == 2 * Nelec + Len(AccumulatorNames(vin.accumulators))
  IN  /\ pc = "call" => wf_log = << >>
      /\ pc \notin {"call", "idle"} =>
           /\ IsPrefix(wf_log, ExpectedCalls)
           /\ wf_configs = coords
      /\ pc = "step" => Len(wf_log) = 1 + step * calls
      /\ pc = "particle" => Len(wf_log) = 1 + step * calls + 2 * e
      /\ pc = "accumulate" => Len(wf_log) = 1 + step * calls + 2 * Nelec
      /\ pc = "done" => wf_log = ExpectedCalls

C10_Witness ==
  /\ pc = "done" /\ vin.nsteps = 2 /\ Nelec = 2
  /\ Len(wf_log) = 13
  /\ wf_log[7] = <<"accumulator", 0, "dipole">>
  /\ coords # StartCoords(vin.nconf, Nelec)

\* C11: in the update of particle e a walker accepts exactly when its squared
\* ratio is strictly greater than its uniform draw; particle e of an accepting
\* walker gets its proposed position, particle e of a rejecting walker and
\* every other particle keep theirs, the ensemble keeps its shape, and
\* updateinternals receives the same mask and the committed positions of e.
C11_ParticleUpdateFrame ==
  [][pc = "particle" =>
       LET p == e + 1
           newcoorde == proposed'[Len(proposed')]
       IN  /\ Len(coords') = Len(coords)
           /\ Len(proposed') = Len(proposed) + 1
           /\ \A c \in 1..Len(coords) :
                /\ Len(coords'[c]) = Len(coords[c])
                /\ loc'.accept[c] <=>
                     (loc'.ratio[c] * loc'.ratio[c] > 2 * loc'.rand[c])
                /\ VSub(newcoorde[c], coords[c][p]) \in Noise
                /\ coords'[c][p] =
                     IF loc'.accept[c] THEN newcoorde[c] ELSE coords[c][p]
                /\ \A q \in (1..Len(coords[c])) \ {p} :
                     coords'[c][q] = coords[c][q]
           /\ wf_upd'.e = e
           /\ wf_upd'.accept = loc'.accept
           /\ wf_upd'.epos = [c \in 1..Len(coords) |-> coords'[c][p]]]_vars

\* one walker accepted the move of the first particle and the other did not
C11_Witness ==
  /\ pc = "particle" /\ e = 1 /\ step = 0 /\ vin.nconf = 2
  /\ wf_upd.e = 0 /\ wf_upd.accept = <<TRUE, FALSE>>
  /\ coords[1][1] = proposed[1][1]
  /\ coords[1][1] # StartCoords(2, 2)[1][1]
  /\ coords[2] = StartCoords(2, 2)[2]

-----------------------------------------------------------------------------
(* Properties of OBDMAccumulator *)

\* a spin selector that is given and is neither 0 nor 1
InvalidSpin == oin.spin.given /\ oin.spin.value \notin {0, 1}

\* C8: constructing an accumulator with a spin that is given and is neither
\* 0 nor 1 raises ValueError, whatever electrons is, before the pool is
\* seeded and before any sweep; no particle subset is chosen in its place.
C8_InvalidSpinRaises ==
  (InvalidSpin /\ opc \notin {"new", "idle"}) =>
    /\ opc = "raised"
    /\ ob.error = "ValueError: Spin not equal to 0 or 1"
    /\ ob.electrons = << >>
    /\ ob.extra_config = << >>
    /\ olog = << >>

C8_Witness ==
  /\ InvalidSpin /\ opc = "raised"
  /\ oin.electrons.given
  /\ oin.mol = [charges |-> <<1, 1>>, nelec |-> <<1, 1>>]

\* the sequence q repeated n times
Times(q, n) == [i \in 1..(n * Len(q)) |-> q[((i - 1) % Len(q)) + 1]]

\* what an accumulator has done after construction, ncalls whole estimation
\* calls and reps repetitions of a further one
ObLogAfter(ncalls, reps) ==
  <<"initial_guess">> \o Times(<<"sample_onebody">>, oin.warmup)
    \o Times(<<"__call__">> \o Times(<<"testvalue", "sample_onebody">>, oin.nstep),
             ncalls)
    \o (IF reps < 0 THEN << >>
        ELSE <<"__call__">> \o Times(<<"testvalue", "sample_onebody">>, reps))

\* the points of a pool
PoolPoints(pool) == { pool[k] : k \in 1..Len(pool) }

\* C13: construction runs exactly warmup sweeps before any estimation call;
\* a call runs one sweep per repetition, nstep in all, and the sweep of a
\* repetition comes after its contribution to value and norm, which is taken
\* at points of the pool as it was before that sweep.
C13_SweepOrder ==
  /\ [](/\ opc = "warmup" =>
            olog = <<"initial_guess">> \o Times(<<"sample_onebody">>, oi)
        /\ opc = "ready" => olog = ObLogAfter(ocalls, -1)
        /\ opc = "call" =>
            /\ olog = ObLogAfter(ocalls, oi)
            /\ Len(results.value) = oi /\ Len(results.norm) = oi)
  /\ [][(opc = "call" /\ opc' = "call") =>
          LET last == results'.value[Len(results'.value)]
          IN  /\ oi' = oi + 1
              /\ \A c \in 1..Len(oens) :
                   last.aux[c] \in PoolPoints(ob.extra_config)
              /\ results'.norm[Len(results'.norm)] = last.aux
              /\ Len(ob'.extra_config) = Len(ob.extra_config)]_vars

\* a call of two repetitions after one warmup sweep has returned; the first
\* contribution was taken at a point the warmup sweep had moved, the second
\* at a point the first repetition's sweep had moved again
C13_Witness ==
  /\ opc = "ready" /\ ocalls = 1 /\ oin.warmup = 1 /\ oin.nstep = 2
  /\ Len(olog) = 7 /\ results.averaged
  /\ results.value[1].aux[1][3] = 1
  /\ results.value[2].aux[1][3] = 2

\* a contribution to value has been added
Contributed == opc \in {"call", "ready"} /\ Len(results.value) > 0

\* C14 as stated: whatever the accumulator is restricted to, every
\* contribution to value is scaled by the move ratio and by the particle
\* count of the system, nelec[0] + nelec[1].
C14_Original ==
  Contributed =>
    \A i \in 1..Len(results.value) :
      results.value[i].nelec = oin.mol.nelec[1] + oin.mol.nelec[2]

\* the number of particles the accumulator is restricted to
SubsetSize ==
  IF oin.spin.given THEN oin.mol.nelec[oin.spin.value + 1]
  ELSE IF oin.electrons.given THEN Len(oin.electrons.value)
  ELSE oin.mol.nelec[1] + oin.mol.nelec[2]

\* C14 as amended: every contribution to value is scaled by the move ratio
\* of the repetition, one per walker, and by the number of particles the
\* accumulator is restricted to: nelec[0] for spin 0, nelec[1] for spin 1,
\* the size of an explicit subset, and nelec[0] + nelec[1] only when there is
\* no restriction.
C14_ScaledBySubsetSize ==
  Contributed =>
    \A i \in 1..Len(results.value) :
      /\ results.value[i].nelec = SubsetSize
      /\ results.value[i].wfratio \in [1..Len(oens) -> ObRatios]
      /\ results.value[i].e \in PoolPoints(ob.electrons)

\* a call on an accumulator restricted to spin channel 0 of a two-particle
\* system has returned
C14_Witness ==
  /\ opc = "ready" /\ results.averaged /\ Len(results.value) = 2
  /\ oin.spin = Some(0) /\ oin.mol.nelec = <<1, 1>>
  /\ results.value[1].nelec = 1

\* the number of points initial_guess seeds the pool with
SeededSize ==
  LET nelec == oin.mol.nelec[1] + oin.mol.nelec[2]
  IN  ((oin.naux \div nelec) + 1) * nelec

\* C15: an estimation call does not write to the walker ensemble and calls
\* nothing of the wavefunction but testvalue; through every sweep and call
\* the ensemble keeps its positions, the accumulator keeps its particle
\* subset, and the pool, the one thing that changes, keeps the number of
\* points it was seeded with.
C15_CallFrame ==
  opc \in {"warmup", "ready", "call"} =>
    /\ oens = StartCoords(Len(oens), oin.mol.nelec[1] + oin.mol.nelec[2])
    /\ \A i \in 1..Len(olog) :
         olog[i] \in {"initial_guess", "sample_onebody", "__call__", "testvalue"}
    /\ ob.electrons =
         SelectElectrons(oin.spin, oin.electrons, oin.mol.nelec).electrons
    /\ ob.error = "none"
    /\ Len(ob.extra_config) = SeededSize

\* a call of two repetitions has returned and its sweeps moved the pool
C15_Witness ==
  /\ opc = "ready" /\ ocalls = 1 /\ oin.nstep = 2 /\ oin.warmup = 0
  /\ \E k \in 1..Len(ob.extra_config) : ob.extra_config[k][3] = 2
  /\ Len(ob.extra_config) = 2
  /\ oens = StartCoords(1, 2)

====
